---- MODULE Spec2Model ----
(***************************************************************************)
(* Model of the job-market tool server (03-job-server-project/server.py)   *)
(* and of the sampling handler (04-sampling/sampling_handler_example.py).  *)
(*                                                                         *)
(* Conventions.                                                            *)
(*  - A Python value that may be None (a dict key that may be missing, an  *)
(*    Optional argument) is a sequence of length at most one: None is <<>>  *)
(*    and the value v is <<v>>.                                            *)
(*  - Text that the code slices or tests by prefix (job descriptions, the  *)
(*    handler's result) is a sequence of characters; text that is only     *)
(*    built and compared is a TLA+ string.                                 *)
(*  - A file is the sequence of chunks json.dump wrote into it; json.load  *)
(*    parses the chunks back and fails on anything that is not a complete  *)
(*    dump.                                                                *)
(***************************************************************************)
EXTENDS Integers, Sequences, FiniteSets, TLC

VARIABLES
    cache,      \* jobs/temp/fetched_jobs_temp.json: None, or <<chunks>>
    saved,      \* jobs/saved_by_candidate/general: file name -> chunks
    call,       \* the tool call last made (sequential flow)
    ret,        \* what that call returned
    lastBatch,  \* history: job_list of the most recent search_jobs call that
                \* returned (None before the first)
    lastWritten, \* history: job_list of the most recent search_jobs call that
                \* returned a job_list that was not empty
    procs,      \* concurrent flow: each running call with its locals
    fs0,        \* concurrent flow: the files before the calls started
    handler     \* sampling handler: inputs, locals and position

vars == <<cache, saved, call, ret, lastBatch, lastWritten, procs, fs0, handler>>

-----------------------------------------------------------------------------
(* Python values *)

None == <<>>

Some(v) == <<v>>

\* Python truthiness of an Optional[str]: None and "" are falsy.
TruthyStr(o) == o /= None /\ o[1] /= ""

\* Python truthiness of an optional number: None and 0 are falsy.
TruthyNum(o) == o /= None /\ o[1] /= 0

\* `a or b` on optional numbers.
OrNum(a, b) == IF TruthyNum(a) THEN a ELSE b

\* d.get(key, default) on an optional field.
GetOr(o, default) == IF o = None THEN default ELSE o[1]

Min(a, b) == IF a <= b THEN a ELSE b

Max(a, b) == IF a >= b THEN a ELSE b

\* s[:n] of Python, for any integer n.
Prefix(s, n) ==
    IF n >= 0 THEN SubSeq(s, 1, Min(n, Len(s)))
    ELSE SubSeq(s, 1, Max(Len(s) + n, 0))

\* s[-n:] of Python, for n > 0.
Suffix(s, n) == SubSeq(s, Max(Len(s) - n, 0) + 1, Len(s))

-----------------------------------------------------------------------------
(* Job descriptions: a str (its characters) or a value of another type *)

DStr(s) == [isStr |-> TRUE, s |-> s]

DNonStr == [isStr |-> FALSE, s |-> <<>>]

SummaryLimit == 1000

HeadLen == 1000

TailLen == 1000

EllipsisOver == 2000

\* "\n...\n"
Ellipsis == <<10, 46, 46, 46, 10>>

\* "Not specified"
NotSpecifiedChars == <<78, 111, 116, 32, 115, 112, 101, 99, 105, 102, 105, 101, 100>>

\* A variant whose two length tests are off by one.
SummaryOffByOne(desc) ==
    IF desc.isStr
    THEN IF Len(desc.s) < SummaryLimit
         THEN desc.s
         ELSE Prefix(desc.s, HeadLen)
              \o (IF Len(desc.s) >= EllipsisOver THEN Ellipsis ELSE <<>>)
              \o Suffix(desc.s, TailLen)
    ELSE <<>>

\* server.py 64-72, after desc = job.get("job_description", "").
Summary(desc) ==
    IF desc.isStr
    THEN IF Len(desc.s) <= SummaryLimit
         THEN desc.s
         ELSE Prefix(desc.s, HeadLen)
              \o (IF Len(desc.s) > EllipsisOver THEN Ellipsis ELSE <<>>)
              \o Suffix(desc.s, TailLen)
    ELSE <<>>

-----------------------------------------------------------------------------
(* Jobs of the search API, and the two kinds of file *)

\* One raw job dict of the API response; a missing key is None.
MkJob(id, title, desc, link, cur, minb, jmin, maxb, jmax, mina, maxa, per) ==
    [job_id |-> id, job_title |-> title, employer_name |-> Some("Acme"),
     job_city |-> Some("Pune"), job_description |-> desc,
     job_apply_link |-> link, job_employment_type |-> Some("FULLTIME"),
     job_posted_at_datetime_utc |-> None,
     salary_currency |-> cur, min_base_salary |-> minb, job_min_salary |-> jmin,
     max_base_salary |-> maxb, job_max_salary |-> jmax,
     min_additional_pay |-> mina, max_additional_pay |-> maxa,
     job_salary_period |-> per]

\* Chunks of the cache file, as json.dump(job_list, f, indent=2) writes them.
CacheChunk(kind, job) == [k |-> kind, job |-> job]

\* A hole left by a write past the end of a truncated file.
CacheNul == CacheChunk("nul", None)

DumpJobs(job_list) ==
    <<CacheChunk("[", None)>>
    \o [i \in 1..Len(job_list) |-> CacheChunk("job", Some(job_list[i]))]
    \o <<CacheChunk("]", None)>>

\* json.load of the cache file: Some(jobs), or None for a JSONDecodeError.
LoadJobs(chunks) ==
    IF /\ Len(chunks) >= 2
       /\ chunks[1].k = "["
       /\ chunks[Len(chunks)].k = "]"
       /\ \A i \in 2..(Len(chunks) - 1) : chunks[i].k = "job"
    THEN Some([i \in 1..(Len(chunks) - 2) |-> chunks[i + 1].job[1]])
    ELSE None

\* Chunks of a saved-job file, as json.dump(job_data, f, indent=2) writes them.
SavedChunk(kind, fields, salary) == [k |-> kind, fields |-> fields, salary |-> salary]

SavedNul == SavedChunk("nul", None, None)

\* The characters of a text that one chunk of a dump holds: a longer salary
\* text makes a longer file.
BlockLen == 16

DumpJobData(job_data) ==
    << SavedChunk("{", None, None),
       SavedChunk("fields", Some([title |-> job_data.title,
                                  company |-> job_data.company,
                                  location |-> job_data.location,
                                  description |-> job_data.description,
                                  employment_type |-> job_data.employment_type,
                                  posted_at |-> job_data.posted_at,
                                  apply_link |-> job_data.apply_link]), None),
       SavedChunk("salary", None, Some(job_data.salary)) >>
    \o [i \in 1..(Len(job_data.salary) \div BlockLen) |->
           SavedChunk("more", None, Some(job_data.salary))]
    \o <<SavedChunk("}", None, None)>>

\* json.load of a saved-job file: Some(job_data), or None for a JSONDecodeError.
LoadJobData(chunks) ==
    IF /\ Len(chunks) >= 4
       /\ chunks[1].k = "{"
       /\ chunks[2].k = "fields"
       /\ chunks[3].k = "salary"
       /\ Len(chunks) = 4 + (Len(chunks[3].salary[1]) \div BlockLen)
       /\ \A i \in 4..(Len(chunks) - 1) :
              chunks[i].k = "more" /\ chunks[i].salary = chunks[3].salary
       /\ chunks[Len(chunks)].k = "}"
    THEN Some([title |-> chunks[2].fields[1].title,
               company |-> chunks[2].fields[1].company,
               location |-> chunks[2].fields[1].location,
               description |-> chunks[2].fields[1].description,
               employment_type |-> chunks[2].fields[1].employment_type,
               posted_at |-> chunks[2].fields[1].posted_at,
               apply_link |-> chunks[2].fields[1].apply_link,
               salary |-> chunks[3].salary[1]])
    ELSE None

\* A variant that names every saved file alike.
FileNameFixed(job_id) == "job.json"

\* server.py 156: the file of a job, inside JOBS_DIR / "general".
FileName(job_id) == job_id \o ".json"

\* What a tool or resource call hands back: a list of records (search_jobs),
\* a text in its literal and interpolated pieces, the rendered sections
\* (get_saved_jobs), or an exception that reached the caller.
Ret(results, text, sections, raised) ==
    [results |-> results, text |-> text, sections |-> sections, raised |-> raised]

NoRet == Ret(<<>>, <<>>, <<>>, FALSE)

Raised == Ret(<<>>, <<>>, <<>>, TRUE)

-----------------------------------------------------------------------------
(* search_jobs *)

\* A variant that keeps one entry too many.
TruncateOffByOne(data, max_results) == Prefix(data, max_results + 1)

\* server.py 51: data.get("data", [])[:max_results]
Truncate(data, max_results) == Prefix(data, max_results)

NoJobsFound ==
    [message |-> Some("No jobs found."), job_id |-> None, title |-> None,
     company |-> None, location |-> None, description |-> <<>>,
     apply_link |-> None]

\* server.py 63-81: the summarized record of one job.
Summarize(job) ==
    [message |-> None,
     job_id |-> job.job_id,
     title |-> job.job_title,
     company |-> job.employer_name,
     location |-> job.job_city,
     description |-> Summary(GetOr(job.job_description, DStr(<<>>))),
     apply_link |-> Some(GetOr(job.job_apply_link, "Not provided"))]

\* A variant that keeps a cache file that already exists.
SearchEffectKeepsCache(c, data, max_results) ==
    LET job_list == Truncate(data, max_results) IN
    IF job_list = <<>>
    THEN [cache |-> c, ret |-> Ret(<<NoJobsFound>>, <<>>, <<>>, FALSE)]
    ELSE [cache |-> IF c = None THEN Some(DumpJobs(job_list)) ELSE c,
          ret |-> Ret([i \in 1..Len(job_list) |-> Summarize(job_list[i])],
                      <<>>, <<>>, FALSE)]

\* A variant that writes the cache before it tests for an empty job_list.
SearchEffectAlwaysWrites(c, data, max_results) ==
    LET job_list == Truncate(data, max_results) IN
    [cache |-> Some(DumpJobs(job_list)),
     ret |-> IF job_list = <<>>
             THEN Ret(<<NoJobsFound>>, <<>>, <<>>, FALSE)
             ELSE Ret([i \in 1..Len(job_list) |-> Summarize(job_list[i])],
                      <<>>, <<>>, FALSE)]

\* server.py 49-83 run without interruption on cache file content c, with the
\* API answering `data`: the cache afterwards and the value returned.
SearchEffect(c, data, max_results) ==
    LET job_list == Truncate(data, max_results) IN
    IF job_list = <<>>
    THEN [cache |-> c, ret |-> Ret(<<NoJobsFound>>, <<>>, <<>>, FALSE)]
    ELSE [cache |-> Some(DumpJobs(job_list)),
          ret |-> Ret([i \in 1..Len(job_list) |-> Summarize(job_list[i])],
                      <<>>, <<>>, FALSE)]

-----------------------------------------------------------------------------
(* save_job *)

NoCacheMsg == <<"No fetched jobs available. Please run search_jobs first.">>

NotFoundMsg(job_id) == <<"Job ID ", job_id, " not found in fetched data.">>

SavedMsg(job_id, final_salary) ==
    <<"Job ", job_id, " saved successfully with salary: ", final_salary>>

\* A variant that falls back to the first job of the cache.
FindJobOrFirst(jobs, job_id) ==
    LET hits == {i \in 1..Len(jobs) : jobs[i].job_id = Some(job_id)} IN
    IF hits = {}
    THEN (IF jobs = <<>> THEN None ELSE Some(jobs[1]))
    ELSE Some(jobs[CHOOSE i \in hits : \A j \in hits : i <= j])

\* server.py 113: next((job for job in jobs if job.get("job_id") == job_id), None)
FindJob(jobs, job_id) ==
    LET hits == {i \in 1..Len(jobs) : jobs[i].job_id = Some(job_id)} IN
    IF hits = {} THEN None
    ELSE Some(jobs[CHOOSE i \in hits : \A j \in hits : i <= j])

Pad3(n) ==
    IF n < 10 THEN "00" \o ToString(n)
    ELSE IF n < 100 THEN "0" \o ToString(n) ELSE ToString(n)

RECURSIVE Commas(_)
\* The format spec {n:,} for n >= 0.
Commas(n) ==
    IF n < 1000 THEN ToString(n)
    ELSE Commas(n \div 1000) \o "," \o Pad3(n % 1000)

\* str.lower() on the pay periods of the API.
Lower(s) ==
    CASE s = "YEAR" -> "year"
      [] s = "MONTH" -> "month"
      [] s = "HOUR" -> "hour"
      [] OTHER -> s

\* server.py 132-135 (amounts are integers here, so int() changes nothing;
\* the dash stands for the en dash of line 135).
FormatSalary(currency, min_base, max_base, min_add, max_add, salary_period) ==
    LET total_min == min_base + (IF TruthyNum(min_add) THEN min_add[1] ELSE 0)
        total_max == max_base + (IF TruthyNum(max_add) THEN max_add[1] ELSE 0)
        per == IF TruthyStr(salary_period)
               THEN " per " \o Lower(salary_period[1]) ELSE ""
    IN currency \o " " \o Commas(total_min) \o " - " \o Commas(total_max) \o per

\* A variant that prefers the structured fields to the caller's salary.
ResolveSalaryIgnoresOverride(selected, salary) ==
    LET min_base == OrNum(selected.min_base_salary, selected.job_min_salary)
        max_base == OrNum(selected.max_base_salary, selected.job_max_salary)
    IN  IF /\ TruthyStr(selected.salary_currency)
           /\ TruthyNum(min_base)
           /\ TruthyNum(max_base)
        THEN FormatSalary(selected.salary_currency[1], min_base[1], max_base[1],
                          selected.min_additional_pay,
                          selected.max_additional_pay,
                          selected.job_salary_period)
        ELSE IF TruthyStr(salary) THEN salary[1] ELSE "Not specified"

\* server.py 117-139: final_salary.
ResolveSalary(selected, salary) ==
    IF TruthyStr(salary) THEN salary[1]
    ELSE LET min_base == OrNum(selected.min_base_salary, selected.job_min_salary)
             max_base == OrNum(selected.max_base_salary, selected.job_max_salary)
         IN  IF /\ TruthyStr(selected.salary_currency)
                /\ TruthyNum(min_base)
                /\ TruthyNum(max_base)
             THEN FormatSalary(selected.salary_currency[1], min_base[1],
                               max_base[1], selected.min_additional_pay,
                               selected.max_additional_pay,
                               selected.job_salary_period)
             ELSE "Not specified"

\* server.py 142-151: job_data.
JobData(selected, final_salary) ==
    [title |-> Some(GetOr(selected.job_title, "Not specified")),
     company |-> Some(GetOr(selected.employer_name, "Not specified")),
     location |-> Some(GetOr(selected.job_city, "Not specified")),
     description |-> GetOr(selected.job_description, DStr(NotSpecifiedChars)),
     employment_type |-> Some(GetOr(selected.job_employment_type, "Not specified")),
     posted_at |-> Some(GetOr(selected.job_posted_at_datetime_utc, "Not specified")),
     apply_link |-> Some(GetOr(selected.job_apply_link, "Not specified")),
     salary |-> final_salary]

\* A variant that empties the folder before it writes.
WriteFileAlone(f, name, chunks) == [n \in {name} |-> chunks]

\* f with file `name` holding `chunks`.
WriteFile(f, name, chunks) ==
    [n \in (DOMAIN f) \cup {name} |-> IF n = name THEN chunks ELSE f[n]]

\* server.py 106-160 run without interruption on cache content c and saved
\* files sv: the saved files afterwards and the value returned.
SaveEffect(c, sv, job_id, salary) ==
    IF c = None THEN [saved |-> sv, ret |-> Ret(<<>>, NoCacheMsg, <<>>, FALSE)]
    ELSE LET jobs == LoadJobs(c[1]) IN
         IF jobs = None THEN [saved |-> sv, ret |-> Raised]
         ELSE LET selected == FindJob(jobs[1], job_id) IN
              IF selected = None
              THEN [saved |-> sv, ret |-> Ret(<<>>, NotFoundMsg(job_id), <<>>, FALSE)]
              ELSE LET final_salary == ResolveSalary(selected[1], salary) IN
                   [saved |-> WriteFile(sv, FileName(job_id),
                                        DumpJobData(JobData(selected[1], final_salary))),
                    ret |-> Ret(<<>>, SavedMsg(job_id, final_salary), <<>>, FALSE)]

-----------------------------------------------------------------------------
(* get_saved_jobs *)

\* The orders in which glob may yield the files of S.
Orders(S) ==
    {o \in [1..Cardinality(S) -> S] : \A i, j \in 1..Cardinality(S) : o[i] = o[j] => i = j}

\* server.py 191-197: the markdown section of one saved job.
Section(job) ==
    [title |-> GetOr(job.title, "Untitled"),
     company |-> job.company,
     location |-> job.location,
     description |-> job.description,
     employment_type |-> job.employment_type,
     apply_link |-> job.apply_link,
     salary |-> job.salary]

RECURSIVE Render(_)
\* server.py 187-199 over the file contents read, in order: a file that does
\* not parse is skipped.
Render(contents) ==
    IF contents = <<>> THEN <<>>
    ELSE LET job == LoadJobData(Head(contents)) IN
         (IF job = None THEN <<>> ELSE <<Section(job[1])>>) \o Render(Tail(contents))

\* server.py 201-203: the value returned for the sections rendered.
SavedJobsResult(sections) ==
    IF sections = <<>>
    THEN Ret(<<>>, <<"# No saved jobs found.">>, <<>>, FALSE)
    ELSE Ret(<<>>, <<"# Saved Jobs\n\n">>, sections, FALSE)

\* server.py 186-203 run without interruption: the values it may return, one
\* for each order of the directory listing.
GetSavedEffect(sv) ==
    {SavedJobsResult(Render([i \in 1..Len(o) |-> sv[o[i]]])) : o \in Orders(DOMAIN sv)}

-----------------------------------------------------------------------------
(* The tool server used by one caller at a time *)

MaxResp == 2

MaxResultsArg == 2

\* The sequences over S of length at most n.
SeqUpTo(S, n) == UNION {[1..k -> S] : k \in 0..n}

JobA ==
    MkJob(Some("j1"), Some("Data Engineer"), Some(DStr(<<72, 105>>)),
          Some("https://a"), Some("USD"), Some(50000), None, Some(90000), None,
          Some(5000), None, Some("YEAR"))

JobB ==
    MkJob(Some("j2"), None, Some(DNonStr), None,
          Some("EUR"), None, Some(1200), None, Some(1234567), None, Some(0), None)

Catalog == {JobA, JobB}

Responses == SeqUpTo(Catalog, MaxResp)

MaxResultsArgs == (-1)..MaxResultsArg

JobIds == {"j1", "j2", "j9"}

Overrides == {None, Some(""), Some("100k"), Some("120k")}

Call(op, data, max_results, job_id, salary) ==
    [op |-> op, data |-> data, max_results |-> max_results,
     job_id |-> job_id, salary |-> salary]

NoCall == Call("", <<>>, 0, "", None)

NoFiles == [n \in {} |-> <<>>]

IdleHandler ==
    [pc |-> "idle", messages |-> <<>>, systemPrompt |-> None,
     chat_messages |-> <<>>, requests |-> 0, outcome |-> "", reply |-> <<>>,
     result |-> None, raised |-> FALSE]

\* A fresh working directory: the import creates the folders and no file.
Init ==
    /\ cache = None
    /\ saved = NoFiles
    /\ call = NoCall
    /\ ret = NoRet
    /\ lastBatch = None
    /\ lastWritten = None
    /\ procs = <<>>
    /\ fs0 = [cache |-> None, saved |-> NoFiles]
    /\ handler = IdleHandler

\* search_jobs(role, location, max_results) with the API answering `data`.
SearchJobs(data, max_results) ==
    LET e == SearchEffect(cache, data, max_results) IN
    /\ cache' = e.cache
    /\ ret' = e.ret
    /\ call' = Call("search_jobs", data, max_results, "", None)
    /\ lastBatch' = Some(Truncate(data, max_results))
    /\ lastWritten' = IF Truncate(data, max_results) = <<>>
                      THEN lastWritten
                      ELSE Some(Truncate(data, max_results))
    /\ UNCHANGED <<saved, procs, fs0, handler>>

\* search_jobs when requests.get or response.json() raises (lines 49-50).
SearchJobsFails ==
    /\ ret' = Raised
    /\ call' = Call("search_jobs", <<>>, 0, "", None)
    /\ UNCHANGED <<cache, saved, lastBatch, lastWritten, procs, fs0, handler>>

\* save_job(job_id, salary).
SaveJob(job_id, salary) ==
    LET e == SaveEffect(cache, saved, job_id, salary) IN
    /\ saved' = e.saved
    /\ ret' = e.ret
    /\ call' = Call("save_job", <<>>, 0, job_id, salary)
    /\ UNCHANGED <<cache, lastBatch, lastWritten, procs, fs0, handler>>

\* The resource jobs://saved.
GetSavedJobs ==
    /\ \E r \in GetSavedEffect(saved) : ret' = r
    /\ call' = Call("get_saved_jobs", <<>>, 0, "", None)
    /\ UNCHANGED <<cache, saved, lastBatch, lastWritten, procs, fs0, handler>>

Next ==
    \/ \E data \in Responses, max_results \in MaxResultsArgs :
          SearchJobs(data, max_results)
    \/ SearchJobsFails
    \/ \E job_id \in JobIds, salary \in Overrides : SaveJob(job_id, salary)
    \/ GetSavedJobs

Spec == Init /\ [][Next]_vars

-----------------------------------------------------------------------------
(* Properties of the sequential flow *)

\* The last call was a save_job that returned the "saved successfully" text.
SaveSucceeded ==
    /\ call.op = "save_job"
    /\ ~ret.raised
    /\ Len(ret.text) = 4
    /\ ret.text[1] = "Job "
    /\ ret.text[2] = call.job_id
    /\ ret.text[3] = " saved successfully with salary: "

\* The file the specification gives the saved job: one per job identifier.
SavedFileOf(job_id) == job_id \o ".json"

\* The identifiers of a job_list.
IdsOf(job_list) == {job_list[i].job_id : i \in 1..Len(job_list)}

\* C1 as stated: a save_job succeeds only for an identifier of the batch of
\* the most recent search_jobs call.
C1_SavedOnlyFromMostRecentSearch ==
    SaveSucceeded =>
        /\ lastBatch /= None
        /\ Some(call.job_id) \in IdsOf(lastBatch[1])

\* C1 as amended: a save_job succeeds only for an identifier of the batch of
\* the most recent search_jobs call whose truncated batch was not empty (the
\* batch the cache file holds), and then the job's file exists.
C1_SavedOnlyFromLastWrittenBatch ==
    SaveSucceeded =>
        /\ lastWritten /= None
        /\ Some(call.job_id) \in IdsOf(lastWritten[1])
        /\ SavedFileOf(call.job_id) \in DOMAIN saved

\* A save succeeded although the most recent search returned no job.
C1_Witness ==
    /\ SaveSucceeded
    /\ lastBatch = Some(<<>>)

\* The last call was a search_jobs that returned, with max_results >= 1.
SearchReturned ==
    /\ call.op = "search_jobs"
    /\ ~ret.raised
    /\ call.max_results >= 1

\* The cache holds the first k jobs of the response, and the list returned
\* has k records with the same identifiers in the same order.
CacheAndResultAre(k) ==
    /\ cache /= None
    /\ LoadJobs(cache[1]) = Some(SubSeq(call.data, 1, k))
    /\ Len(cache[1]) = k + 2
    /\ Len(ret.results) = k
    /\ \A i \in 1..k : ret.results[i].job_id = call.data[i].job_id

\* C2 as stated: for max_results >= 1 and a response of N >= 0 jobs, the
\* cache holds exactly the first min(N, max_results) jobs and the list
\* returned matches it in count and identifier order.
C2_CacheHoldsTruncatedBatch ==
    SearchReturned => CacheAndResultAre(Min(Len(call.data), call.max_results))

\* C2 as amended: the same for a response of N >= 1 jobs.
C2_CacheHoldsNonEmptyTruncatedBatch ==
    (SearchReturned /\ Len(call.data) >= 1) =>
        CacheAndResultAre(Min(Len(call.data), call.max_results))

\* A search whose response was longer than max_results.
C2_Witness ==
    /\ SearchReturned
    /\ Len(call.data) > call.max_results
    /\ Len(ret.results) = call.max_results

\* The cache file holds no entry whose job_id is job_id.
NotInCache(job_id) ==
    \A i \in 1..Len(cache[1]) :
        cache[1][i].k = "job" => cache[1][i].job[1].job_id /= Some(job_id)

\* C3: a save_job that finds no cache file returns the "No fetched jobs
\* available" text, one that finds no entry of that job_id returns the "not
\* found" text, and neither these nor any save_job that does not return the
\* "saved successfully" text changes a saved-job file or the cache file.
C3_FailedSaveChangesNothing ==
    [][call'.op = "save_job" =>
        /\ cache = None =>
              /\ ret'.text = <<"No fetched jobs available. Please run search_jobs first.">>
              /\ saved' = saved /\ cache' = cache
        /\ (cache /= None /\ NotInCache(call'.job_id)) =>
              /\ ret'.text = <<"Job ID ", call'.job_id, " not found in fetched data.">>
              /\ saved' = saved /\ cache' = cache
        /\ ~SaveSucceeded' => (saved' = saved /\ cache' = cache)
      ]_vars

\* A save_job returned "not found" while saved files and a cache existed.
C3_Witness ==
    /\ call.op = "save_job"
    /\ ret.text = <<"Job ID ", call.job_id, " not found in fetched data.">>
    /\ cache /= None
    /\ saved /= NoFiles

\* The salary a saved file holds.
SalaryIn(chunks) == LoadJobData(chunks)[1].salary

\* Every save_job writes at most the file of its own job_id; a repeated
\* save_job with the same arguments changes no file.
SaveTouchesOwnFileOnly ==
    /\ call'.op = "save_job" =>
          /\ DOMAIN saved' \subseteq (DOMAIN saved) \cup {SavedFileOf(call'.job_id)}
          /\ \A n \in DOMAIN saved :
                n /= SavedFileOf(call'.job_id) => (n \in DOMAIN saved' /\ saved'[n] = saved[n])
    /\ (call.op = "save_job" /\ call' = call) => saved' = saved
    /\ SaveSucceeded' => SavedFileOf(call'.job_id) \in DOMAIN saved'

\* Two successful saves of one job_id in a row, with different overrides.
TwoOverrides ==
    /\ SaveSucceeded /\ SaveSucceeded'
    /\ call'.job_id = call.job_id
    /\ call.salary /= None /\ call'.salary /= None
    /\ call'.salary /= call.salary

\* C5 as stated: saving a job_id twice with the same arguments is the same
\* as saving it once, saving it twice with different overrides leaves its
\* one file with the later override as salary, and no save creates a second
\* file for the job_id or alters the file of another.
C5_SaveIsIdempotent ==
    [][/\ SaveTouchesOwnFileOnly
       /\ TwoOverrides =>
             /\ DOMAIN saved' = DOMAIN saved
             /\ SalaryIn(saved'[SavedFileOf(call'.job_id)]) = call'.salary[1]
      ]_vars

\* C5 as amended: the same, with the later override as salary when that
\* override is not the empty string.
C5_SaveIsIdempotentNonEmptyOverride ==
    [][/\ SaveTouchesOwnFileOnly
       /\ (TwoOverrides /\ call'.salary[1] /= "") =>
             /\ DOMAIN saved' = DOMAIN saved
             /\ SalaryIn(saved'[SavedFileOf(call'.job_id)]) = call'.salary[1]
      ]_vars

\* One job saved with one override and then another, beside another job's file.
C5_Witness ==
    /\ SaveSucceeded
    /\ call.salary = Some("120k")
    /\ SalaryIn(saved[SavedFileOf(call.job_id)]) = "120k"
    /\ Cardinality(DOMAIN saved) = 2

\* The truncated batch of a search_jobs call with these arguments is empty.
EmptyBatch(data, max_results) ==
    \/ Len(data) = 0
    \/ max_results = 0
    \/ (max_results < 0 /\ Len(data) + max_results <= 0)

\* C10: a search_jobs call whose truncated batch is empty returns the single
\* record {"message": "No jobs found."} and changes neither the cache file
\* nor any saved-job file.
C10_EmptySearchChangesNothing ==
    [][(/\ call'.op = "search_jobs"
        /\ ~ret'.raised
        /\ EmptyBatch(call'.data, call'.max_results)) =>
          /\ Len(ret'.results) = 1
          /\ ret'.results[1].message = Some("No jobs found.")
          /\ cache' = cache
          /\ saved' = saved
      ]_vars

\* An empty search that found an earlier batch and a saved job in place.
C10_Witness ==
    /\ call.op = "search_jobs"
    /\ ~ret.raised
    /\ EmptyBatch(call.data, call.max_results)
    /\ cache /= None
    /\ saved /= NoFiles

-----------------------------------------------------------------------------
(* Salary resolution over every shape of the structured fields *)

\* One job j1 for each combination of missing, falsy and ordinary values of
\* the salary fields.
SalaryJobs ==
    {MkJob(Some("j1"), Some("Data Engineer"), None, None,
           cur, minb, jmin, maxb, jmax, mina, maxa, per) :
        cur \in {None, Some(""), Some("USD")},
        minb \in {None, Some(0), Some(50000)},
        jmin \in {None, Some(40000)},
        maxb \in {None, Some(0), Some(90000)},
        jmax \in {None, Some(1234567)},
        mina \in {None, Some(5000)},
        maxa \in {None, Some(0), Some(999)},
        per \in {None, Some(""), Some("YEAR")}}

\* One search that returns one such job, then saves of it.
NextSalary ==
    \/ /\ cache = None
       /\ \E job \in SalaryJobs : SearchJobs(<<job>>, 1)
    \/ \E salary \in Overrides : SaveJob("j1", salary)

SpecSalary == Init /\ [][NextSalary]_vars

\* The cached job a successful save_job selected.
Selected ==
    LET jobs == lastWritten[1] IN
    jobs[CHOOSE i \in 1..Len(jobs) :
            /\ jobs[i].job_id = Some(call.job_id)
            /\ \A j \in 1..(i - 1) : jobs[j].job_id /= Some(call.job_id)]

\* The salary in the file of the job last saved.
StoredSalary == SalaryIn(saved[SavedFileOf(call.job_id)])

\* The first of two optional fields that is present.
FirstPresent(a, b) == IF a /= None THEN a ELSE b

\* C4 as stated: the stored salary is the override whenever one is supplied;
\* otherwise the formatted string whenever currency, minimum base and maximum
\* base are all present in the cached job; otherwise "Not specified".
C4_SalaryByPresence ==
    SaveSucceeded =>
        LET sel == Selected
            min_base == FirstPresent(sel.min_base_salary, sel.job_min_salary)
            max_base == FirstPresent(sel.max_base_salary, sel.job_max_salary)
        IN  IF call.salary /= None
            THEN StoredSalary = call.salary[1]
            ELSE IF sel.salary_currency /= None /\ min_base /= None /\ max_base /= None
                 THEN StoredSalary =
                          FormatSalary(sel.salary_currency[1], min_base[1], max_base[1],
                                       sel.min_additional_pay, sel.max_additional_pay,
                                       sel.job_salary_period)
                 ELSE StoredSalary = "Not specified"

\* The first of two optional fields that counts.
FirstCounting(a, b) == IF a /= None /\ a /= Some(0) THEN a ELSE b

\* C4 as amended: the stored salary is the override whenever a non-empty one
\* is supplied; otherwise the formatted string whenever the currency is
\* present and non-empty and the minimum and maximum base (min_base_salary,
\* else job_min_salary when that is missing or 0; likewise the maximum) are
\* present and not 0; otherwise "Not specified".
C4_SalaryByTruthiness ==
    SaveSucceeded =>
        LET sel == Selected
            min_base == FirstCounting(sel.min_base_salary, sel.job_min_salary)
            max_base == FirstCounting(sel.max_base_salary, sel.job_max_salary)
        IN  IF call.salary /= None /\ call.salary /= Some("")
            THEN StoredSalary = call.salary[1]
            ELSE IF /\ sel.salary_currency /= None /\ sel.salary_currency /= Some("")
                    /\ min_base /= None /\ min_base /= Some(0)
                    /\ max_base /= None /\ max_base /= Some(0)
                 THEN StoredSalary =
                          FormatSalary(sel.salary_currency[1], min_base[1], max_base[1],
                                       sel.min_additional_pay, sel.max_additional_pay,
                                       sel.job_salary_period)
                 ELSE StoredSalary = "Not specified"

\* A save without override of a job whose min_base_salary is 0 and whose
\* job_min_salary is not, stored with the formatted salary.
C4_Witness ==
    /\ SaveSucceeded
    /\ call.salary = None
    /\ Selected.min_base_salary = Some(0)
    /\ Selected.min_additional_pay = Some(5000)
    /\ StoredSalary = "USD 45,000 - 1,234,567 per year"

-----------------------------------------------------------------------------
(* Description summaries over every length around the two limits *)

MaxDescLen == 2010

\* Lengths at and around the limits of 1000 and 2000 characters.
DescLens == (0..5) \cup (990..1010) \cup {1500} \cup (1990..MaxDescLen)

\* A description of n characters that differ from place to place.
MkDesc(n, k) == [i \in 1..n |-> 32 + ((i * k) % 89)]

DescJobs ==
    {MkJob(Some("j1"), Some("Data Engineer"), desc, None,
           None, None, None, None, None, None, None, None) :
        desc \in {None, Some(DNonStr)}
                 \cup {Some(DStr(MkDesc(n, k))) : n \in DescLens, k \in 1..3}}

\* One search that returns one such job.
NextDesc ==
    /\ cache = None
    /\ \E job \in DescJobs : SearchJobs(<<job>>, 1)

SpecDesc == Init /\ [][NextDesc]_vars

\* s is the first 1000 characters of d, then `mark`, then the last 1000.
HeadMarkTail(s, d, mark) ==
    /\ Len(s) = 1000 + Len(mark) + 1000
    /\ \A i \in 1..1000 : s[i] = d[i]
    /\ \A i \in 1..Len(mark) : s[1000 + i] = mark[i]
    /\ \A i \in 1..1000 : s[1000 + Len(mark) + i] = d[Len(d) - 1000 + i]

\* C6: the summary of a description d is d when len(d) <= 1000, the first
\* 1000 characters directly followed by the last 1000 when
\* 1000 < len(d) <= 2000, and the first 1000, the ellipsis marker and the
\* last 1000 when len(d) > 2000; a description that is no string has the
\* empty summary.
C6_SummaryByLength ==
    (call.op = "search_jobs" /\ ~ret.raised /\ lastBatch /= None /\ lastBatch[1] /= <<>>) =>
        \A i \in 1..Len(lastBatch[1]) :
            LET raw == lastBatch[1][i].job_description
                s == ret.results[i].description
            IN  /\ (raw /= None /\ ~raw[1].isStr) => s = <<>>
                /\ (raw /= None /\ raw[1].isStr) =>
                      LET d == raw[1].s IN
                      /\ Len(d) <= 1000 => s = d
                      /\ (1000 < Len(d) /\ Len(d) <= 2000) => HeadMarkTail(s, d, <<>>)
                      /\ Len(d) > 2000 => HeadMarkTail(s, d, <<10, 46, 46, 46, 10>>)

\* A search returned the summary of a description of more than 2000
\* characters.
C6_Witness ==
    /\ call.op = "search_jobs"
    /\ lastBatch /= None /\ lastBatch[1] /= <<>>
    /\ lastBatch[1][1].job_description /= None
    /\ Len(lastBatch[1][1].job_description[1].s) = 2001
    /\ Len(ret.results[1].description) = 2005

-----------------------------------------------------------------------------
(* Two calls at once on the same working directory *)
(* Each call runs its handler one file operation at a time: open(.., "w")   *)
(* creates or empties the file, each write puts the next chunk at the       *)
(* writer's own position, and a read takes the file as it is at that        *)
(* moment.                                                                  *)

DefaultMaxResults == 5

\* content after a writer at position `offset` writes `chunk`; a write past
\* the end leaves a hole of `nul`.
WriteAt(content, offset, chunk, nul) ==
    [i \in 1..Max(Len(content), offset + 1) |->
        IF i = offset + 1 THEN chunk
        ELSE IF i <= Len(content) THEN content[i] ELSE nul]

\* A call that has not started.
Proc(op, data, max_results, job_id, salary) ==
    [op |-> op, data |-> data, max_results |-> max_results, job_id |-> job_id,
     salary |-> salary, pc |-> "start", job_list |-> <<>>, towrite |-> <<>>,
     offset |-> 0, final_salary |-> "", names |-> <<>>, contents |-> <<>>,
     ret |-> NoRet]

ConcCalls ==
    {Proc("search_jobs", data, DefaultMaxResults, "", None) :
        data \in {<<>>, <<JobB>>, <<JobA, JobB>>}}
    \cup {Proc("save_job", <<>>, 0, job_id, salary) :
        job_id \in {"j1", "j2"}, salary \in {None, Some("120k")}}
    \cup {Proc("get_saved_jobs", <<>>, 0, "", None)}

\* The files a sequence of calls made one after the other leaves.
RECURSIVE FilesAfter(_, _)
FilesAfter(fs, calls) ==
    IF calls = <<>> THEN fs
    ELSE LET c == Head(calls)
             next == IF c.op = "search_jobs"
                     THEN [cache |-> SearchEffect(fs.cache, c.data, c.max_results).cache,
                           saved |-> fs.saved]
                     ELSE [cache |-> fs.cache,
                           saved |-> SaveEffect(fs.cache, fs.saved, c.job_id, c.salary).saved]
         IN FilesAfter(next, Tail(calls))

\* Files the server can have left behind before the two calls start.
PreStates ==
    LET fresh == [cache |-> None, saved |-> NoFiles]
        searchA == Proc("search_jobs", <<JobA>>, DefaultMaxResults, "", None)
        searchAB == Proc("search_jobs", <<JobA, JobB>>, DefaultMaxResults, "", None)
        saveA == Proc("save_job", <<>>, 0, "j1", Some("100k"))
    IN  {FilesAfter(fresh, h) :
            h \in {<<>>, <<searchA>>, <<searchAB>>, <<searchA, saveA>>,
                   <<searchA, saveA, searchAB>>}}

InitConc ==
    /\ fs0 \in PreStates
    /\ cache = fs0.cache
    /\ saved = fs0.saved
    /\ procs \in [1..2 -> ConcCalls]
    /\ call = NoCall
    /\ ret = NoRet
    /\ lastBatch = None
    /\ lastWritten = None
    /\ handler = IdleHandler

Finish(p, r) == [p EXCEPT !.pc = "done", !.ret = r]

\* search_jobs, lines 49-58: the request, the truncation, the test for an
\* empty job_list and the open that empties the cache file.
SearchOpen(i) ==
    LET p == procs[i]
        job_list == Truncate(p.data, p.max_results)
    IN  /\ p.op = "search_jobs" /\ p.pc = "start"
        /\ IF job_list = <<>>
           THEN /\ procs' = [procs EXCEPT ![i] =
                                Finish(p, Ret(<<NoJobsFound>>, <<>>, <<>>, FALSE))]
                /\ UNCHANGED cache
           ELSE /\ cache' = Some(<<>>)
                /\ procs' = [procs EXCEPT ![i] =
                                [p EXCEPT !.pc = "write", !.job_list = job_list,
                                          !.towrite = DumpJobs(job_list), !.offset = 0]]
        /\ UNCHANGED <<saved, call, ret, lastBatch, lastWritten, fs0, handler>>

\* search_jobs, line 59: one chunk of the dump; after the last one the file
\* is closed and lines 62-83 return the summaries.
SearchWrite(i) ==
    LET p == procs[i] IN
    /\ p.op = "search_jobs" /\ p.pc = "write"
    /\ cache' = Some(WriteAt(cache[1], p.offset, p.towrite[p.offset + 1], CacheNul))
    /\ procs' = [procs EXCEPT ![i] =
                    IF p.offset + 1 = Len(p.towrite)
                    THEN Finish(p, Ret([k \in 1..Len(p.job_list) |-> Summarize(p.job_list[k])],
                                       <<>>, <<>>, FALSE))
                    ELSE [p EXCEPT !.offset = p.offset + 1]]
    /\ UNCHANGED <<saved, call, ret, lastBatch, lastWritten, fs0, handler>>

\* save_job, lines 106-108: the test that the cache file exists.
SaveExists(i) ==
    LET p == procs[i] IN
    /\ p.op = "save_job" /\ p.pc = "start"
    /\ procs' = [procs EXCEPT ![i] =
                    IF cache = None
                    THEN Finish(p, Ret(<<>>, NoCacheMsg, <<>>, FALSE))
                    ELSE [p EXCEPT !.pc = "read"]]
    /\ UNCHANGED <<cache, saved, call, ret, lastBatch, lastWritten, fs0, handler>>

\* save_job, lines 110-151: the read of the cache file, the lookup and the
\* job_data to write; a file that does not parse raises to the caller.
SaveRead(i) ==
    LET p == procs[i]
        jobs == LoadJobs(cache[1])
        selected == FindJob(jobs[1], p.job_id)
        final_salary == ResolveSalary(selected[1], p.salary)
    IN  /\ p.op = "save_job" /\ p.pc = "read"
        /\ procs' = [procs EXCEPT ![i] =
                        IF jobs = None THEN Finish(p, Raised)
                        ELSE IF selected = None
                        THEN Finish(p, Ret(<<>>, NotFoundMsg(p.job_id), <<>>, FALSE))
                        ELSE [p EXCEPT !.pc = "open", !.final_salary = final_salary,
                                       !.towrite = DumpJobData(JobData(selected[1], final_salary))]]
        /\ UNCHANGED <<cache, saved, call, ret, lastBatch, lastWritten, fs0, handler>>

\* save_job, lines 154-157: the open that creates or empties the job's file.
SaveOpen(i) ==
    LET p == procs[i] IN
    /\ p.op = "save_job" /\ p.pc = "open"
    /\ saved' = WriteFile(saved, FileName(p.job_id), <<>>)
    /\ procs' = [procs EXCEPT ![i] = [p EXCEPT !.pc = "write", !.offset = 0]]
    /\ UNCHANGED <<cache, call, ret, lastBatch, lastWritten, fs0, handler>>

\* save_job, line 158: one chunk of the dump; after the last one the file is
\* closed and line 160 returns.
SaveWrite(i) ==
    LET p == procs[i]
        name == FileName(p.job_id)
    IN  /\ p.op = "save_job" /\ p.pc = "write"
        /\ saved' = WriteFile(saved, name,
                              WriteAt(saved[name], p.offset, p.towrite[p.offset + 1], SavedNul))
        /\ procs' = [procs EXCEPT ![i] =
                        IF p.offset + 1 = Len(p.towrite)
                        THEN Finish(p, Ret(<<>>, SavedMsg(p.job_id, p.final_salary), <<>>, FALSE))
                        ELSE [p EXCEPT !.offset = p.offset + 1]]
        /\ UNCHANGED <<cache, call, ret, lastBatch, lastWritten, fs0, handler>>

\* get_saved_jobs, line 187: the directory listing, in some order.
GetGlob(i) ==
    LET p == procs[i] IN
    /\ p.op = "get_saved_jobs" /\ p.pc = "start"
    /\ \E o \in Orders(DOMAIN saved) :
          procs' = [procs EXCEPT ![i] =
                       IF o = <<>> THEN Finish(p, SavedJobsResult(<<>>))
                       ELSE [p EXCEPT !.pc = "read", !.names = o]]
    /\ UNCHANGED <<cache, saved, call, ret, lastBatch, lastWritten, fs0, handler>>

\* get_saved_jobs, lines 188-199: the read of the next file listed; after
\* the last one lines 201-203 return.
GetRead(i) ==
    LET p == procs[i]
        contents == Append(p.contents, saved[p.names[Len(p.contents) + 1]])
    IN  /\ p.op = "get_saved_jobs" /\ p.pc = "read"
        /\ procs' = [procs EXCEPT ![i] =
                        IF Len(contents) = Len(p.names)
                        THEN Finish([p EXCEPT !.contents = contents],
                                    SavedJobsResult(Render(contents)))
                        ELSE [p EXCEPT !.contents = contents]]
        /\ UNCHANGED <<cache, saved, call, ret, lastBatch, lastWritten, fs0, handler>>

NextConc ==
    \/ \E i \in DOMAIN procs : SearchOpen(i)
    \/ \E i \in DOMAIN procs : SearchWrite(i)
    \/ \E i \in DOMAIN procs : SaveExists(i)
    \/ \E i \in DOMAIN procs : SaveRead(i)
    \/ \E i \in DOMAIN procs : SaveOpen(i)
    \/ \E i \in DOMAIN procs : SaveWrite(i)
    \/ \E i \in DOMAIN procs : GetGlob(i)
    \/ \E i \in DOMAIN procs : GetRead(i)

SpecConc == InitConc /\ [][NextConc]_vars

\* What call c, made alone on files fs, may leave and return.
Alone(fs, c) ==
    IF c.op = "search_jobs"
    THEN LET e == SearchEffect(fs.cache, c.data, c.max_results) IN
         {[cache |-> e.cache, saved |-> fs.saved, ret |-> e.ret]}
    ELSE IF c.op = "save_job"
    THEN LET e == SaveEffect(fs.cache, fs.saved, c.job_id, c.salary) IN
         {[cache |-> fs.cache, saved |-> e.saved, ret |-> e.ret]}
    ELSE {[cache |-> fs.cache, saved |-> fs.saved, ret |-> r] :
             r \in GetSavedEffect(fs.saved)}

\* The files and the two results when call a runs to its end before call b
\* starts: <<cache, saved, result of a, result of b>>.
OneThenOther(a, b) ==
    UNION {{<<y.cache, y.saved, x.ret, y.ret>> :
               y \in Alone([cache |-> x.cache, saved |-> x.saved], b)} :
           x \in Alone(fs0, a)}

\* The two calls have returned with the results and files of one of their
\* two serial executions.
Serializable ==
    \/ <<cache, saved, procs[1].ret, procs[2].ret>> \in OneThenOther(procs[1], procs[2])
    \/ <<cache, saved, procs[2].ret, procs[1].ret>> \in OneThenOther(procs[2], procs[1])

BothDone == procs /= <<>> /\ \A i \in DOMAIN procs : procs[i].pc = "done"

\* One of the two calls is a search_jobs and the other a save_job.
SearchWithSave ==
    \E i, j \in DOMAIN procs : procs[i].op = "search_jobs" /\ procs[j].op = "save_job"

\* C7 as stated: two concurrent calls of which not one is a search_jobs and
\* the other a save_job end with the results and the files of a serial
\* execution of the two.
C7_OnlySearchWithSaveRaces ==
    (BothDone /\ ~SearchWithSave) => Serializable

\* Call a writes a file that call b reads or writes.
Disturbs(a, b) ==
    \/ a.op = "search_jobs" /\ b.op \in {"search_jobs", "save_job"}
    \/ a.op = "save_job" /\ b.op = "get_saved_jobs"
    \/ a.op = "save_job" /\ b.op = "save_job" /\ a.job_id = b.job_id

\* C7 as amended: two concurrent calls end with the results and the files of
\* a serial execution of the two unless one is a search_jobs and the other a
\* search_jobs or a save_job, or one is a save_job and the other a
\* get_saved_jobs or a save_job of the same job_id.
C7_UndisturbedCallsSerialize ==
    (BothDone /\ ~Disturbs(procs[1], procs[2]) /\ ~Disturbs(procs[2], procs[1]))
        => Serializable

\* Two saves of different jobs ran at once beside a file saved earlier, and
\* both wrote their file.
C7_Witness ==
    /\ BothDone
    /\ procs[1].op = "save_job" /\ procs[2].op = "save_job"
    /\ procs[1].job_id /= procs[2].job_id
    /\ procs[1].final_salary /= "" /\ procs[2].final_salary /= ""
    /\ fs0.saved /= NoFiles

-----------------------------------------------------------------------------
(* The sampling handler *)

MaxMsgs == 3

\* A SamplingMessage: a role and a content that is text or something else.
Msg(role, type, text) == [role |-> role, content |-> [type |-> type, text |-> text]]

Msgs ==
    {Msg(role, "text", Some(text)) : role \in {"user", "assistant"}, text \in {"hi", "yo"}}
    \cup {Msg(role, "image", None) : role \in {"user", "assistant"}}

SystemPrompts == {None, Some(""), Some("Be brief.")}

\* The texts a completion may hold: the second starts like the handler's
\* own error text.
Replies == {<<"o", "k">>, <<"[", "E", "r", "r", "o", "r", ":", "?">>, <<>>}

\* str(e) of the exceptions the completion call raises.
ApiErrors == {<<"t", "i", "m", "e", "o", "u", "t">>, <<>>}

\* str(e) of the KeyError of line 33 on a response without choices.
KeyErrorText == <<"'", "c", "h", "o", "i", "c", "e", "s", "'">>

RECURSIVE BuildChatUnfiltered(_, _)
\* A variant that keeps the messages whose content is no text.
BuildChatUnfiltered(messages, systemPrompt) ==
    IF messages = <<>>
    THEN (IF TruthyStr(systemPrompt)
          THEN <<[role |-> "system", content |-> systemPrompt]>> ELSE <<>>)
    ELSE LET m == messages[Len(messages)] IN
         BuildChatUnfiltered(SubSeq(messages, 1, Len(messages) - 1), systemPrompt)
         \o <<[role |-> m.role, content |-> m.content.text]>>

RECURSIVE BuildChat(_, _)
\* sampling_handler_example.py 17-26: chat_messages after the loop over
\* `messages`.
BuildChat(messages, systemPrompt) ==
    IF messages = <<>>
    THEN (IF TruthyStr(systemPrompt)
          THEN <<[role |-> "system", content |-> systemPrompt]>> ELSE <<>>)
    ELSE LET m == messages[Len(messages)] IN
         BuildChat(SubSeq(messages, 1, Len(messages) - 1), systemPrompt)
         \o (IF m.content.type = "text"
             THEN <<[role |-> m.role, content |-> m.content.text]>> ELSE <<>>)

\* f"[Error: LLM failed: {e}]"
ErrorText(e) ==
    <<"[", "E", "r", "r", "o", "r", ":", " ", "L", "L", "M", " ", "f", "a", "i",
      "l", "e", "d", ":", " ">> \o e \o <<"]">>

\* A variant whose try block ends before the response is taken apart.
HandledApiErrorsOnly(outcome, reply) ==
    IF outcome = "ok" THEN [result |-> Some(reply), raised |-> FALSE]
    ELSE IF outcome = "raises" THEN [result |-> Some(ErrorText(reply)), raised |-> FALSE]
    ELSE [result |-> None, raised |-> TRUE]

\* sampling_handler_example.py 28-38: what the handler hands back when the
\* completion call returns a response with text `reply` ("ok"), raises an
\* exception whose str() is `reply` ("raises"), or returns a response that
\* line 33 cannot take apart ("malformed").
Handled(outcome, reply) ==
    IF outcome = "ok" THEN [result |-> Some(reply), raised |-> FALSE]
    ELSE [result |-> Some(ErrorText(reply)), raised |-> FALSE]

InitSampling ==
    /\ handler \in
          {[IdleHandler EXCEPT !.pc = "start", !.messages = ms, !.systemPrompt = sp] :
              ms \in SeqUpTo(Msgs, MaxMsgs), sp \in SystemPrompts}
    /\ cache = None
    /\ saved = NoFiles
    /\ call = NoCall
    /\ ret = NoRet
    /\ lastBatch = None
    /\ lastWritten = None
    /\ procs = <<>>
    /\ fs0 = [cache |-> None, saved |-> NoFiles]

\* Lines 17-32: the request is built and the completion call is awaited.
HandlerRequest ==
    /\ handler.pc = "start"
    /\ handler' = [handler EXCEPT
                      !.pc = "awaiting",
                      !.chat_messages = BuildChat(handler.messages, handler.systemPrompt),
                      !.requests = handler.requests + 1]
    /\ UNCHANGED <<cache, saved, call, ret, lastBatch, lastWritten, procs, fs0>>

\* The awaited call ends in `outcome` and the handler runs to its return.
HandlerResume(outcome, reply) ==
    LET h == Handled(outcome, reply) IN
    /\ handler.pc = "awaiting"
    /\ handler' = [handler EXCEPT !.pc = "done", !.outcome = outcome, !.reply = reply,
                                  !.result = h.result, !.raised = h.raised]
    /\ UNCHANGED <<cache, saved, call, ret, lastBatch, lastWritten, procs, fs0>>

NextSampling ==
    \/ HandlerRequest
    \/ \E reply \in Replies : HandlerResume("ok", reply)
    \/ \E e \in ApiErrors : HandlerResume("raises", e)
    \/ HandlerResume("malformed", KeyErrorText)

SpecSampling == InitSampling /\ [][NextSampling]_vars

\* Text s starts with "[Error:".
StartsWithError(s) ==
    /\ Len(s) >= 7
    /\ SubSeq(s, 1, 7) = <<"[", "E", "r", "r", "o", "r", ":">>

TextPositions == {i \in 1..Len(handler.messages) : handler.messages[i].content.type = "text"}

\* The position of the k-th text-typed message.
KthText(k) == CHOOSE i \in TextPositions : Cardinality({j \in TextPositions : j <= i}) = k

\* The request is `lead` followed by one entry for each text-typed message,
\* in order, with the message's own role and text.
RequestIs(lead) ==
    LET chat == handler.chat_messages IN
    /\ Len(chat) = Len(lead) + Cardinality(TextPositions)
    /\ \A i \in 1..Len(lead) : chat[i] = lead[i]
    /\ \A k \in 1..Cardinality(TextPositions) :
          /\ chat[Len(lead) + k].role = handler.messages[KthText(k)].role
          /\ chat[Len(lead) + k].content = handler.messages[KthText(k)].content.text

\* C9 as stated: the request is one system entry holding the system prompt
\* if a system prompt is present and none otherwise, followed by one entry
\* for each text-typed message and none for any other.
C9_RequestBySystemPromptPresent ==
    handler.pc \in {"awaiting", "done"} =>
        IF handler.systemPrompt /= None
        THEN RequestIs(<<[role |-> "system", content |-> handler.systemPrompt]>>)
        ELSE RequestIs(<<>>)

\* C9 as amended: the same, with the system entry if a system prompt is
\* present and not the empty string.
C9_RequestBySystemPromptNonEmpty ==
    handler.pc \in {"awaiting", "done"} =>
        IF handler.systemPrompt /= None /\ handler.systemPrompt /= Some("")
        THEN RequestIs(<<[role |-> "system", content |-> handler.systemPrompt]>>)
        ELSE RequestIs(<<>>)

\* A request with a system entry, built from messages of which the middle
\* one is no text.
C9_Witness ==
    /\ handler.pc = "awaiting"
    /\ handler.systemPrompt = Some("Be brief.")
    /\ Len(handler.messages) = 3
    /\ handler.messages[2].content.type = "image"
    /\ Len(handler.chat_messages) = 3

====
